---- MODULE Spec2Model ----
(***************************************************************************)
(* Model of the notebook lesson_4_VGG.ipynb: a top-to-bottom run of its    *)
(* code cells.  The kernel executes one statement (or one loop iteration)  *)
(* per step; pc names the statement that runs next.                        *)
(*                                                                         *)
(* Images are modelled as arrays of 8-bit pixel values, one pixel per      *)
(* sample, and the class vectors as arrays of class numbers.  A float      *)
(* produced by numpy's true division is kept as the exact quotient         *)
(* [num, den]; den = 0 stands for the nan/inf numpy yields on a division   *)
(* by zero.  The values a trained network predicts are not modelled, only  *)
(* how many predictions, epochs and plots have been produced.              *)
(*                                                                         *)
(* cifar10.load_data() takes no argument and returns the CIFAR-10 images:  *)
(* uint8 arrays whose training part reaches the largest 8-bit value, 255.  *)
(* The loaded arrays range over the small arrays with that property.       *)
(***************************************************************************)
EXTENDS Integers, Sequences, FiniteSets

\* ------------------------------------------------------------------ bounds
\* number of training samples and of test samples the model loads
NTrain == 2
NTest == 1

\* the largest value of a uint8 pixel, which the CIFAR-10 training images reach
PixelMax == 255

\* pixel values and class numbers the loaded data is drawn from
PixelVals == {0, 100, PixelMax}
LabelVals == {0, 3, 7}

\* ------------------------------------------------------- hyperparameters
num_classes == 10
epochs == 14
img_rows == 32
img_cols == 32
n_channels == 3
input_shape == <<img_rows, img_cols, n_channels>>

\* samples = [4, 83, 298, 1045, 3751, 5555, 7112, 8953]: only its length
\* matters to the loop that plots one prediction per entry
NumSamples == 8

VARIABLES pc, x_train, x_test, y_train, y_test, x_train_norm, x_test_norm,
          shapes, model, tb_log, compiled, datagen, history, score,
          all_predictions, plots, saved, executed

vars == <<pc, x_train, x_test, y_train, y_test, x_train_norm, x_test_norm,
          shapes, model, tb_log, compiled, datagen, history, score,
          all_predictions, plots, saved, executed>>

\* ----------------------------------------------------------- pure helpers
RECURSIVE SeqMin(_)
SeqMin(s) ==
  IF Len(s) = 1 THEN s[1]
  ELSE LET m == SeqMin(Tail(s)) IN IF s[1] < m THEN s[1] ELSE m

\* x.max() over all the values of the array
RECURSIVE SeqMax(_)
SeqMax(s) ==
  IF Len(s) = 1 THEN s[1]
  ELSE LET m == SeqMax(Tail(s)) IN IF s[1] > m THEN s[1] ELSE m

\* numpy true division of an integer by an integer, kept exact
TrueDivide(x, m) == [num |-> x, den |-> m]

\* x / x.max() applied elementwise
Scale(x, m) == [i \in 1..Len(x) |-> TrueDivide(x[i], m)]

\* 0 <= q <= 1 for a quotient; nan and inf (den = 0) are not in the range
InUnit(q) == q.den > 0 /\ 0 <= q.num /\ q.num <= q.den

\* keras.utils.to_categorical: row i has a 1 at (0-based) index y[i]
to_categorical(y, n) ==
  [i \in 1..Len(y) |-> [j \in 1..n |-> IF j - 1 = y[i] THEN 1 ELSE 0]]

\* ------------------------------------------------------------ the topology
Layer(t, n, k) == [type |-> t, n |-> n, k |-> k]

\* the statements of the topology cell, in order; n is the filter count,
\* the pool size, the unit count; k is the kernel size
Layers ==
  << Layer("Input", 0, 0),
     Layer("Conv2D", 64, 3), Layer("Conv2D", 64, 3),
     Layer("MaxPooling2D", 2, 0),
     Layer("Conv2D", 96, 3), Layer("Conv2D", 96, 3),
     Layer("MaxPooling2D", 2, 0),
     Layer("Conv2D", 192, 3), Layer("Conv2D", 192, 3), Layer("Conv2D", 192, 1),
     Layer("MaxPooling2D", 2, 0),
     Layer("Conv2D", 224, 3), Layer("Conv2D", 224, 3), Layer("Conv2D", 224, 1),
     Layer("Flatten", 0, 0),
     Layer("Dense", 1024, 0),
     Layer("Dropout", 0, 0),
     Layer("Dense", 1024, 0),
     Layer("Dense", num_classes, 0) >>

ConvValid(s, filters, k) == <<s[1] - k + 1, s[2] - k + 1, filters>>

\* Conv2D, padding='same', strides 1: ceil(size / stride), channels = filters
Conv2D(s, filters, k) == <<s[1], s[2], filters>>

\* MaxPooling2D, padding 'valid', strides = pool_size
MaxPooling2D(s, pool) ==
  <<(s[1] - pool) \div pool + 1, (s[2] - pool) \div pool + 1, s[3]>>

Flatten(s) == <<s[1] * s[2] * s[3]>>

Dense(s, units) == <<units>>

\* output shape of layer l called on a tensor of shape s (batch axis left out)
OutputShape(l, s) ==
  CASE l.type = "Input" -> input_shape
    [] l.type = "Conv2D" -> Conv2D(s, l.n, l.k)
    [] l.type = "MaxPooling2D" -> MaxPooling2D(s, l.n)
    [] l.type = "Flatten" -> Flatten(s)
    [] l.type = "Dense" -> Dense(s, l.n)
    [] l.type = "Dropout" -> s

\* --------------------------------------------------------------- the run
Init ==
  /\ pc = "load"
  /\ x_train = <<>> /\ x_test = <<>>
  /\ y_train = <<>> /\ y_test = <<>>
  /\ x_train_norm = <<>> /\ x_test_norm = <<>>
  /\ shapes = <<>>
  /\ model = FALSE
  /\ tb_log = FALSE
  /\ compiled = FALSE
  /\ datagen = FALSE
  /\ history = <<>>
  /\ score = FALSE
  /\ all_predictions = 0
  /\ plots = 0
  /\ saved = FALSE
  /\ executed = <<>>

\* the training images cifar10.load_data() can return: uint8 arrays that
\* contain the value 255
TrainImages == {xs \in [1..NTrain -> PixelVals] : \E i \in 1..NTrain : xs[i] = PixelMax}

\* (x_train, y_train), (x_test, y_test) = cifar10.load_data()
LoadData ==
  /\ pc = "load"
  /\ \E xs \in TrainImages, ys \in [1..NTrain -> LabelVals],
        xt \in [1..NTest -> PixelVals], yt \in [1..NTest -> LabelVals] :
       /\ x_train' = xs /\ y_train' = ys
       /\ x_test' = xt /\ y_test' = yt
  /\ executed' = Append(executed, "load")
  /\ pc' = "normalize"
  /\ UNCHANGED <<x_train_norm, x_test_norm, shapes, model, tb_log, compiled,
                 datagen, history, score, all_predictions, plots, saved>>

\* x_train_norm = x_train / x_train.max(); x_test_norm = x_test / x_train.max()
Normalize ==
  /\ pc = "normalize"
  /\ x_train_norm' = Scale(x_train, SeqMax(x_train))
  /\ x_test_norm' = Scale(x_test, SeqMax(x_train))
  /\ executed' = Append(executed, "normalize")
  /\ pc' = "onehot"
  /\ UNCHANGED <<x_train, x_test, y_train, y_test, shapes, model, tb_log,
                 compiled, datagen, history, score, all_predictions, plots,
                 saved>>

\* y_train = to_categorical(y_train, num_classes); same for y_test
OneHot ==
  /\ pc = "onehot"
  /\ y_train' = to_categorical(y_train, num_classes)
  /\ y_test' = to_categorical(y_test, num_classes)
  /\ executed' = Append(executed, "onehot")
  /\ pc' = "declare"
  /\ UNCHANGED <<x_train, x_test, x_train_norm, x_test_norm, shapes, model,
                 tb_log, compiled, datagen, history, score, all_predictions,
                 plots, saved>>

\* one statement of the topology cell: the next layer is called on the
\* output of the one before
DeclareLayer ==
  /\ pc = "declare"
  /\ Len(shapes) < Len(Layers)
  /\ LET k == Len(shapes) + 1
         prev == IF k = 1 THEN <<>> ELSE shapes[k - 1]
     IN shapes' = Append(shapes, OutputShape(Layers[k], prev))
  /\ executed' = IF shapes = <<>> THEN Append(executed, "declare") ELSE executed
  /\ UNCHANGED <<pc, x_train, x_test, y_train, y_test, x_train_norm,
                 x_test_norm, model, tb_log, compiled, datagen, history, score,
                 all_predictions, plots, saved>>

\* model = Model(inputs=[inputs], outputs=[layer15])
BuildModel ==
  /\ pc = "declare"
  /\ Len(shapes) = Len(Layers)
  /\ model' = TRUE
  /\ pc' = "tb_log"
  /\ UNCHANGED <<x_train, x_test, y_train, y_test, x_train_norm, x_test_norm,
                 shapes, tb_log, compiled, datagen, history, score,
                 all_predictions, plots, saved, executed>>

\* tb_log = keras.callbacks.TensorBoard(...)
MakeCallback ==
  /\ pc = "tb_log"
  /\ tb_log' = TRUE
  /\ executed' = Append(executed, "tb_log")
  /\ pc' = "compile"
  /\ UNCHANGED <<x_train, x_test, y_train, y_test, x_train_norm, x_test_norm,
                 shapes, model, compiled, datagen, history, score,
                 all_predictions, plots, saved>>

\* model.compile(loss=..., optimizer=..., metrics=[...])
Compile ==
  /\ pc = "compile"
  /\ model
  /\ compiled' = TRUE
  /\ executed' = Append(executed, "compile")
  /\ pc' = "summary"
  /\ UNCHANGED <<x_train, x_test, y_train, y_test, x_train_norm, x_test_norm,
                 shapes, model, tb_log, datagen, history, score,
                 all_predictions, plots, saved>>

\* model.summary(): prints the layer table, changes nothing
Summary ==
  /\ pc = "summary"
  /\ executed' = Append(executed, "summary")
  /\ pc' = "datagen"
  /\ UNCHANGED <<x_train, x_test, y_train, y_test, x_train_norm, x_test_norm,
                 shapes, model, tb_log, compiled, datagen, history, score,
                 all_predictions, plots, saved>>

\* datagen = ImageDataGenerator(...)
MakeDatagen ==
  /\ pc = "datagen"
  /\ datagen' = TRUE
  /\ executed' = Append(executed, "datagen")
  /\ pc' = "fit"
  /\ UNCHANGED <<x_train, x_test, y_train, y_test, x_train_norm, x_test_norm,
                 shapes, model, tb_log, compiled, history, score,
                 all_predictions, plots, saved>>

FitStopsOneShort == Len(history) >= epochs - 1

\* model.fit(..., epochs=epochs, ...) returns after the last epoch
FitFinished == Len(history) = epochs

\* one epoch of model.fit: a pass over datagen.flow(x_train_norm, y_train),
\* then validation on (x_test_norm, y_test); one entry is added to
\* history.history['loss'] and ['val_loss']
FitEpoch ==
  /\ pc = "fit"
  /\ compiled /\ datagen /\ tb_log
  /\ ~FitFinished
  /\ history' = Append(history, Len(history) + 1)
  /\ executed' = IF history = <<>> THEN Append(executed, "fit") ELSE executed
  /\ UNCHANGED <<pc, x_train, x_test, y_train, y_test, x_train_norm,
                 x_test_norm, shapes, model, tb_log, compiled, datagen, score,
                 all_predictions, plots, saved>>

\* model.fit returns; history is bound
FitReturn ==
  /\ pc = "fit"
  /\ FitFinished
  /\ pc' = "evaluate"
  /\ UNCHANGED <<x_train, x_test, y_train, y_test, x_train_norm, x_test_norm,
                 shapes, model, tb_log, compiled, datagen, history, score,
                 all_predictions, plots, saved, executed>>

\* score = model.evaluate(x_test_norm, y_test, verbose=1) and the prints
Evaluate ==
  /\ pc = "evaluate"
  /\ compiled
  /\ score' = TRUE
  /\ executed' = Append(executed, "evaluate")
  /\ pc' = "plot_loss"
  /\ UNCHANGED <<x_train, x_test, y_train, y_test, x_train_norm, x_test_norm,
                 shapes, model, tb_log, compiled, datagen, history,
                 all_predictions, plots, saved>>

\* plt.plot(range(1,epochs+1), history.history['loss'], ...): the x and y
\* arrays must have the same length
PlotLoss ==
  /\ pc = "plot_loss"
  /\ Len(history) = epochs
  /\ executed' = Append(executed, "plot_loss")
  /\ pc' = "predict_all"
  /\ UNCHANGED <<x_train, x_test, y_train, y_test, x_train_norm, x_test_norm,
                 shapes, model, tb_log, compiled, datagen, history, score,
                 all_predictions, plots, saved>>

\* all_predictions = model.predict(x_test_norm).argmax(axis=1)
PredictAll ==
  /\ pc = "predict_all"
  /\ all_predictions' = Len(x_test_norm)
  /\ executed' = Append(executed, "predict_all")
  /\ pc' = "visualize"
  /\ UNCHANGED <<x_train, x_test, y_train, y_test, x_train_norm, x_test_norm,
                 shapes, model, tb_log, compiled, datagen, history, score,
                 plots, saved>>

\* one iteration of "for i, n in enumerate(samples)": predict one image and
\* draw it with its actual and predicted label
VisualizeSample ==
  /\ pc = "visualize"
  /\ plots < NumSamples
  /\ plots' = plots + 1
  /\ executed' = IF plots = 0 THEN Append(executed, "visualize") ELSE executed
  /\ UNCHANGED <<pc, x_train, x_test, y_train, y_test, x_train_norm,
                 x_test_norm, shapes, model, tb_log, compiled, datagen,
                 history, score, all_predictions, saved>>

\* the loop over samples is exhausted
VisualizeDone ==
  /\ pc = "visualize"
  /\ plots = NumSamples
  /\ pc' = "save"
  /\ UNCHANGED <<x_train, x_test, y_train, y_test, x_train_norm, x_test_norm,
                 shapes, model, tb_log, compiled, datagen, history, score,
                 all_predictions, plots, saved, executed>>

\* model.save("my_vgg_model")
Save ==
  /\ pc = "save"
  /\ saved' = TRUE
  /\ executed' = Append(executed, "save")
  /\ pc' = "done"
  /\ UNCHANGED <<x_train, x_test, y_train, y_test, x_train_norm, x_test_norm,
                 shapes, model, tb_log, compiled, datagen, history, score,
                 all_predictions, plots>>

Next ==
  \/ LoadData
  \/ Normalize
  \/ OneHot
  \/ DeclareLayer
  \/ BuildModel
  \/ MakeCallback
  \/ Compile
  \/ Summary
  \/ MakeDatagen
  \/ FitEpoch
  \/ FitReturn
  \/ Evaluate
  \/ PlotLoss
  \/ PredictAll
  \/ VisualizeSample
  \/ VisualizeDone
  \/ Save

Spec == Init /\ [][Next]_vars

\* ------------------------------------------------------------ properties
\* the nine pipeline steps of the notebook, in the order the spec gives
Pipeline ==
  <<"load", "normalize", "onehot", "declare", "compile", "fit", "evaluate",
    "visualize", "save">>

IsPipelineStep(s) == \E i \in 1..Len(Pipeline) : Pipeline[i] = s

\* the pipeline steps executed so far, in execution order
Steps == SelectSeq(executed, IsPipelineStep)

IsPrefix(a, b) == Len(a) <= Len(b) /\ SubSeq(b, 1, Len(a)) = a

\* C1: in a top-to-bottom run each pipeline step happens exactly once and in
\* the order load, normalize, one-hot, declare, compile, fit, evaluate,
\* visualize, save: the steps taken so far are always a prefix of that list
\* and the finished run has taken all of them; no epoch is trained before
\* compile, evaluate and predict see a model that has trained all its epochs,
\* and the model is saved only after fit, evaluate and all the prediction
\* plots are complete.
C1_PipelineOrder ==
  /\ IsPrefix(Steps, Pipeline)
  /\ (pc = "done" => Steps = Pipeline)
  /\ (history # <<>> => compiled)
  /\ ((score \/ all_predictions > 0 \/ plots > 0) => Len(history) = epochs)
  /\ (saved => Len(history) = epochs /\ score /\ all_predictions > 0
               /\ plots = NumSamples)

C1_Witness == pc = "done" /\ saved /\ Len(history) = epochs /\ Steps = Pipeline

\* the encodings the One Hot Encoding text gives for the labels 7, 0 and 3
Doc7 == <<0, 0, 0, 0, 0, 0, 1, 0, 0, 0>>
Doc0 == <<1, 0, 0, 0, 0, 0, 0, 0, 0, 0>>
Doc3 == <<0, 0, 1, 0, 0, 0, 0, 0, 0, 0>>

\* the encoding step turns label l into row r, in y_train and in y_test
Encodes(l, r) ==
  pc = "onehot" /\ pc' = "declare" =>
    /\ \A i \in 1..Len(y_train) : y_train[i] = l => y_train'[i] = r
    /\ \A i \in 1..Len(y_test) : y_test[i] = l => y_test'[i] = r

\* C2: with num_classes = 10 the encoding step turns label 7 into
\* 0000001000, label 0 into 1000000000 and label 3 into 0010000000, as the
\* One Hot Encoding text of the notebook says.
C2_AsDocumented ==
  [][Encodes(7, Doc7) /\ Encodes(0, Doc0) /\ Encodes(3, Doc3)]_vars

SummaryShapes ==
  << <<32, 32, 3>>,
     <<32, 32, 64>>, <<32, 32, 64>>,
     <<16, 16, 64>>,
     <<16, 16, 96>>, <<16, 16, 96>>,
     <<8, 8, 96>>,
     <<8, 8, 192>>, <<8, 8, 192>>, <<8, 8, 192>>,
     <<4, 4, 192>>,
     <<4, 4, 224>>, <<4, 4, 224>>, <<4, 4, 224>>,
     <<3584>>,
     <<1024>>,
     <<1024>>,
     <<1024>>,
     <<10>> >>

\* C4: for the 32x32x3 input the shapes through the declared layers are the
\* ones model.summary() prints: convolutions keep height and width and set
\* the channels to their filter count, each max-pooling halves height and
\* width (32 -> 16 -> 8 -> 4), Flatten yields 4*4*224 = 3584 features, the
\* hidden Dense layers yield 1024 and the softmax layer num_classes = 10.
C4_Shapes ==
  /\ IsPrefix(shapes, SummaryShapes)
  /\ (model => /\ shapes = SummaryShapes
               /\ shapes[15] = <<4 * 4 * 224>>
               /\ shapes[Len(shapes)] = <<num_classes>>)

C4_Witness == model /\ Len(shapes) = Len(Layers) /\ pc = "tb_log"

====
